---- MODULE Spec2Model ----
(***************************************************************************)
(* Session lifecycle of the user-account backend: login, logout and        *)
(* refresh-token rotation (src/src/controllers/user.controller.js), the    *)
(* routes of src/unnamed/part_000, the User documents they read and write. *)
(* Every handler is an async function: it runs to its next `await` in one  *)
(* step, and other requests may run between two steps of one request.     *)
(***************************************************************************)
EXTENDS Integers, Sequences, FiniteSets, Bags, TLC

(* ------------------------------ bounds -------------------------------- *)
\* Requests the server handles at once, each from its arrival to its
\* response.
MaxInFlight == 2
\* Last value of the clock (seconds, the resolution of a token's iat).
MaxClock == 2

(* ------------------------- token lifetimes ---------------------------- *)
\* REFRESH_TOKEN_EXPIRY and ACCESS_TOKEN_EXPIRY, in clock ticks.
RefreshLife == 2
AccessLife == 1

(* ------------------------------ values -------------------------------- *)
\* JavaScript's undefined, where a token is expected.
Undefined == [kind |-> "undefined", sub |-> 0, iat |-> 0, sig |-> "none"]
\* The options object { httpOnly: true, secure: true }, where it is passed
\* as a cookie's value.
options == [kind |-> "options", sub |-> 0, iat |-> 0, sig |-> "none"]

\* JavaScript's undefined, where a string of the request body is expected.
Missing == "<undefined>"

\* String.prototype.trim, on the strings requests carry.
trim(str) == IF str = " " THEN "" ELSE str

\* String.prototype.toLowerCase, on the strings requests carry.
toLowerCase(str) == IF str = "Alice" THEN "alice" ELSE str

\* bcrypt's hash of a password, as stored on the User document.
Hash(password) == <<"bcrypt", password>>

\* user.isPassWordCorrect(password): bcrypt.compare against the stored hash.
isPassWordCorrect(password, stored) == Hash(password) = stored

\* user.generateAccessToken(): jwt.sign({_id, ...}, ACCESS_TOKEN_SECRET,
\* {expiresIn}); the token is a function of the subject and the second of
\* issue.
generateAccessToken(id, now) ==
    [kind |-> "access", sub |-> id, iat |-> now, sig |-> "good"]

\* user.generateRefreshToken(): jwt.sign({_id}, REFRESH_TOKEN_SECRET,
\* {expiresIn}).
generateRefreshToken(id, now) ==
    [kind |-> "refresh", sub |-> id, iat |-> now, sig |-> "good"]

\* A token with a byte flipped: its signature no longer verifies.
Tamper(t) == [t EXCEPT !.sig = "bad"]

\* jwt.verify(token, secret): the signature under the secret of `kind`
\* first, then the expiry.
jwtVerify(t, kind, life, now) ==
    IF t.sig # "good" \/ t.kind # kind THEN "invalid signature"
    ELSE IF now >= t.iat + life THEN "jwt expired"
    ELSE "ok"

\* const { a, b } = obj: a property the object lacks reads as undefined.
Pick(obj, key) == IF key \in DOMAIN obj THEN obj[key] ELSE Undefined

(* --------------------------- User documents --------------------------- *)
NewUser(username, email, password) ==
    [username |-> username, email |-> email, password |-> Hash(password),
     refreshToken |-> Undefined]

Alice == NewUser("alice", "alice@x", "pw1")
Bob == NewUser("bob", "bob@x", "pw2")

\* The users collection when the server starts: the documents registration
\* has created so far, none of them logged in yet.
InitialStores == {<<Alice>>}
\* ... and with a second user.
TwoUserStores == {<<Alice, Bob>>}

Usernames == {"", "alice", "bob"}
Emails == {"", "alice@x", "bob@x"}
Passwords == {"pw1", "pw2"}

\* A slip: a projection that keeps every field.
SelectAll(doc, minus) == doc

\* User.findById(id).select("-password -refreshToken"): the document
\* without the fields excluded.
Select(doc, minus) == [k \in DOMAIN doc \ minus |-> doc[k]]

\* No user in the body of a response.
NoView == Select(Alice, DOMAIN Alice)

\* The body and the files of a request to /register; NoForm on the other
\* routes.
NoForm ==
    [fullName |-> Missing, email |-> Missing, username |-> Missing,
     password |-> Missing, avatar |-> FALSE]

(* ------------------------------ requests ------------------------------ *)
\* A request: its handler (op), the await it is at (pc), its locals, its
\* response, and what history records of it.
Idle ==
    [op |-> "none", pc |-> "idle",
     token |-> Undefined, uid |-> 0,
     accessToken |-> Undefined, refreshToken |-> Undefined,
     status |-> 0, message |-> "",
     bodyAccess |-> Undefined, bodyRefresh |-> Undefined,
     cookieAccess |-> Undefined, cookieRefresh |-> Undefined,
     form |-> NoForm, bodyUser |-> NoView,
     \* history
     claimed |-> 0,          \* login: the user the credentials sent belong to
     overwritten |-> FALSE,  \* login: since this request saved its token,
                             \* another request has saved one on the same user
     rivalWon |-> FALSE,     \* refresh: since this request passed the
                             \* comparison, another one that had passed it with
                             \* the same token has saved its new token
     again |-> FALSE]        \* logout: the user was logged out already

VARIABLES
    users,      \* the users collection: a sequence of User documents, _id = index
    clock,      \* the current second
    reqs,       \* the requests in flight: a bag of request records
    issued,     \* history: per user, the refresh token saved last
    loggedOut   \* history: per user, the refresh token stored when the user's
                \* Logout completed; Undefined before it and after a Login

vars == <<users, clock, reqs, issued, loggedOut>>

UserIds == 1..Len(users)

\* The requests in flight, as a set.
Reqs == BagToSet(reqs)

\* A handler that has responded (pc "done") hands its response to the
\* client before the event loop runs anything else.
Running == \A q \in Reqs : q.pc # "done"

\* A request can arrive.
Arrives == Running /\ BagCardinality(reqs) < MaxInFlight

\* Request req is at the await `pc` of handler `op`, and the awaited call
\* returns.
At(req, op, pc) == Running /\ req.op = op /\ req.pc = pc

\* A request arrives and runs to its first await, or to its response.
Enter(req) == reqs' = reqs (+) SetToBag({req})

\* Request old moves on as req: to its next await or to its response.
Step(old, req) == reqs' = (reqs (-) SetToBag({old})) (+) SetToBag({req})

\* throw new ApiError(status, message), turned into the response.
Fail(req, status, message) ==
    [req EXCEPT !.pc = "done", !.status = status, !.message = message]

Min(S) == CHOOSE x \in S : \A y \in S : x <= y

Init ==
    /\ users \in InitialStores
    /\ clock = 0
    /\ reqs = EmptyBag
    /\ issued = [u \in UserIds |-> Undefined]
    /\ loggedOut = [u \in UserIds |-> Undefined]

Tick ==
    /\ Running
    /\ clock < MaxClock
    /\ clock' = clock + 1
    /\ UNCHANGED <<users, reqs, issued, loggedOut>>

(* ------------------------------- Login -------------------------------- *)
\* A slip: $and in place of $or.
LoginQueryAnd(doc, username, email) ==
    /\ (username # "" /\ doc.username = username)
    /\ (email # "" /\ doc.email = email)

\* $or: [{ username }, { email }]
LoginQuery(doc, username, email) ==
    \/ (username # "" /\ doc.username = username)
    \/ (email # "" /\ doc.email = email)

\* User.findOne(query): the first matching document, 0 for none.
findOne(username, email) ==
    LET hits == {i \in UserIds : LoginQuery(users[i], username, email)}
    IN IF hits = {} THEN 0 ELSE Min(hits)

\* The user that an (identity, password) pair belongs to: the one user the
\* identity sent names, when the password is that user's; 0 otherwise.
Owner(username, email, password) ==
    LET named == {i \in UserIds :
                    \/ (username # "" /\ users[i].username = username)
                    \/ (email # "" /\ users[i].email = email)}
    IN IF Cardinality(named) = 1 /\ users[Min(named)].password = Hash(password)
       THEN Min(named) ELSE 0

\* A slip: loginuser without its password check.
LoginRequestAnyPassword(un, em, pw) ==
    LET req == [Idle EXCEPT !.op = "login", !.claimed = Owner(un, em, pw)]
        u == findOne(un, em)
    IN IF un = "" /\ em = ""
       THEN Fail(req, 400, "Username or email is required")
       ELSE IF u = 0 THEN Fail(req, 404, "User does not exist")
       ELSE [req EXCEPT !.pc = "gen", !.uid = u]

\* loginuser, from the request to the result of User.findOne and of the
\* password check: the request as it stands at its first await past them,
\* or its error response.
LoginRequest(un, em, pw) ==
    LET req == [Idle EXCEPT !.op = "login", !.claimed = Owner(un, em, pw)]
        u == findOne(un, em)
    IN IF un = "" /\ em = ""
       THEN Fail(req, 400, "Username or email is required")
       ELSE IF u = 0 THEN Fail(req, 404, "User does not exist")
       ELSE IF ~isPassWordCorrect(pw, users[u].password)
       THEN Fail(req, 401, "Invalid user credentials")
       ELSE [req EXCEPT !.pc = "gen", !.uid = u]

\* A request to /login arrives.
LoginFind ==
    \E un \in Usernames, em \in Emails, pw \in Passwords :
        /\ Arrives
        /\ Enter(LoginRequest(un, em, pw))
        /\ UNCHANGED <<users, clock, issued, loggedOut>>

(* ------------------- generateAccessAndRefereshTokens ------------------ *)
\* return { accessToken, refreshToken }
GeneratedPair(req) ==
    [accessToken |-> req.accessToken, refreshToken |-> req.refreshToken]

\* user.refreshToken = refreshToken, as user.save() then writes it.
SetRefreshToken(doc, refreshToken) == [doc EXCEPT !.refreshToken = refreshToken]

\* A slip: the save as an update of every document.
SavedOnAll(store, id, refreshToken) ==
    [i \in DOMAIN store |-> SetRefreshToken(store[i], refreshToken)]

\* The collection once user.save() has written the document of user `id`.
Saved(store, id, refreshToken) ==
    [store EXCEPT ![id] = SetRefreshToken(store[id], refreshToken)]

\* The catch of refreshAccessToken: every error leaves as a 401 carrying the
\* error's message.
RefreshCatch(req, message) == Fail(req, 401, message)

\* A slip: the error of generateAccessAndRefereshTokens reaching the client
\* of either caller as thrown.
GenerateFailedAsThrown(req) ==
    Fail(req, 500, "Error generating refresh and access tokens")

\* What the caller makes of the ApiError(500) that the catch of
\* generateAccessAndRefereshTokens throws.
GenerateFailed(req) ==
    IF req.op = "refresh"
    THEN RefreshCatch(req, "Error generating refresh and access tokens")
    ELSE Fail(req, 500, "Error generating refresh and access tokens")

\* A slip: loginuser reading newRefreshToken from the pair, as
\* refreshAccessToken does.
LoginResponseSlip(req, pair) ==
    [req EXCEPT !.pc = "done", !.status = 200,
                !.message = "User logged in successfully",
                !.bodyAccess = Pick(pair, "accessToken"),
                !.bodyRefresh = Pick(pair, "newRefreshToken"),
                !.cookieAccess = Pick(pair, "accessToken"),
                !.cookieRefresh = Pick(pair, "newRefreshToken")]

\* const { accessToken, refreshToken } = await generate...(user._id), and
\* the 200 response of loginuser.
LoginResponse(req, pair) ==
    [req EXCEPT !.pc = "done", !.status = 200,
                !.message = "User logged in successfully",
                !.bodyAccess = Pick(pair, "accessToken"),
                !.bodyRefresh = Pick(pair, "refreshToken"),
                !.cookieAccess = Pick(pair, "accessToken"),
                !.cookieRefresh = Pick(pair, "refreshToken")]

\* const { accessToken, newRefreshToken } = await generate...(user._id), and
\* the 200 response of refreshAccessToken.
RefreshResponse(req, pair) ==
    [req EXCEPT !.pc = "done", !.status = 200,
                !.message = "Access token refreshed",
                !.bodyAccess = Pick(pair, "accessToken"),
                !.bodyRefresh = Pick(pair, "newRefreshToken"),
                !.cookieAccess = Pick(pair, "accessToken"),
                !.cookieRefresh = Pick(pair, "newRefreshToken")]

\* User.findById(userId), then the two tokens are signed at the current
\* second and set on the document in memory.
GenFind ==
    \E req \in Reqs :
        /\ Running /\ req.op \in {"login", "refresh"} /\ req.pc = "gen"
        /\ Step(req,
                IF req.uid \notin UserIds THEN GenerateFailed(req)
                ELSE [req EXCEPT
                        !.pc = "save",
                        !.accessToken = generateAccessToken(req.uid, clock),
                        !.refreshToken = generateRefreshToken(req.uid, clock)])
        /\ UNCHANGED <<users, clock, issued, loggedOut>>

\* History: what a request in flight learns when a Refresh presenting token
\* t (a Login: Undefined) has saved a new token on user u.
Told(q, u, t) ==
    IF q.op = "refresh" /\ q.pc \in {"gen", "save"} /\ q.token = t
    THEN [q EXCEPT !.rivalWon = TRUE]
    ELSE IF q.op = "login" /\ q.pc = "respond" /\ q.uid = u
    THEN [q EXCEPT !.overwritten = TRUE]
    ELSE q

\* await user.save({ validateBeforeSave: false }): the write reaches the
\* store, or the store fails and the catch throws ApiError(500). loginuser
\* goes on to its second findById; refreshAccessToken responds.
GenSave ==
    \E req \in Reqs, ok \in BOOLEAN :
        /\ Running /\ req.op \in {"login", "refresh"} /\ req.pc = "save"
        /\ LET u == req.uid
               after == IF ~ok THEN GenerateFailed(req)
                        ELSE IF req.op = "login" THEN [req EXCEPT !.pc = "respond"]
                        ELSE RefreshResponse(req, GeneratedPair(req))
               others == reqs (-) SetToBag({req})
               Note(q) == Told(q, u, req.token)
           IN /\ reqs' = (IF ok THEN BagOfAll(Note, others) ELSE others)
                         (+) SetToBag({after})
              /\ users' = IF ok THEN Saved(users, u, req.refreshToken)
                          ELSE users
              /\ issued' = IF ok THEN [issued EXCEPT ![u] = req.refreshToken]
                           ELSE issued
              /\ loggedOut' = IF ok /\ req.op = "login"
                              THEN [loggedOut EXCEPT ![u] = Undefined]
                              ELSE loggedOut
        /\ UNCHANGED clock

\* User.findById(user._id).select("-password -refreshToken"), then the
\* response with both cookies.
LoginRespond ==
    \E req \in Reqs :
        /\ At(req, "login", "respond")
        /\ Step(req, [LoginResponse(req, GeneratedPair(req)) EXCEPT
                         !.bodyUser = Select(users[req.uid],
                                             {"password", "refreshToken"})])
        /\ UNCHANGED <<users, clock, issued, loggedOut>>

(* ------------------------------ Refresh ------------------------------- *)
\* The access token signed together with a refresh token.
AccessOf(t) == generateAccessToken(t.sub, t.iat)

\* The refresh tokens a client may hold: one signed for a user at a second
\* up to now (the server keeps no record of those it signed: the set covers
\* them all).
RefreshTokens ==
    {generateRefreshToken(u, i) : u \in UserIds, i \in 0..clock}

\* What a request to /refresh-token can carry: nothing, a refresh token, an
\* access token in its place, or a refresh token with a byte flipped.
RefreshInputs ==
    {Undefined} \cup RefreshTokens \cup {AccessOf(t) : t \in RefreshTokens}
                \cup {Tamper(t) : t \in RefreshTokens}

\* A slip: the comparison only asks that the user has a token stored.
TokenMismatchLoose(incoming, doc) == doc.refreshToken = Undefined

\* A slip: the comparison looks at the subject alone.
TokenMismatchSubject(incoming, doc) == incoming.sub # doc.refreshToken.sub

\* incomingRefreshToken !== user?.refreshToken
TokenMismatch(incoming, doc) == incoming # doc.refreshToken

\* A slip: refreshAccessToken without its guard against an absent token.
RefreshCheckNoGuard(t) ==
    IF jwtVerify(t, "refresh", RefreshLife, clock) # "ok"
    THEN jwtVerify(t, "refresh", RefreshLife, clock)
    ELSE IF t.sub \notin UserIds THEN "Invalid refresh token"
    ELSE IF TokenMismatch(t, users[t.sub]) THEN "Refresh token is expired or used"
    ELSE "ok"

\* A slip: jwt.verify with ignoreExpiration.
RefreshCheckNoExpiry(t) ==
    IF t = Undefined THEN "Unauthorized request"
    ELSE IF t.sig # "good" \/ t.kind # "refresh" THEN "invalid signature"
    ELSE IF t.sub \notin UserIds THEN "Invalid refresh token"
    ELSE IF TokenMismatch(t, users[t.sub]) THEN "Refresh token is expired or used"
    ELSE "ok"

\* A slip: jwt.decode in place of jwt.verify: the signature is not checked.
RefreshCheckDecode(t) ==
    IF t = Undefined THEN "Unauthorized request"
    ELSE IF clock >= t.iat + RefreshLife THEN "jwt expired"
    ELSE IF t.sub \notin UserIds THEN "Invalid refresh token"
    ELSE IF TokenMismatch(t, users[t.sub]) THEN "Refresh token is expired or used"
    ELSE "ok"

\* refreshAccessToken up to the comparison: "ok" when the token is to be
\* rotated, the message of the error thrown otherwise.
RefreshCheck(t) ==
    IF t = Undefined THEN "Unauthorized request"
    ELSE IF jwtVerify(t, "refresh", RefreshLife, clock) # "ok"
    THEN jwtVerify(t, "refresh", RefreshLife, clock)
    ELSE IF t.sub \notin UserIds THEN "Invalid refresh token"
    ELSE IF TokenMismatch(t, users[t.sub]) THEN "Refresh token is expired or used"
    ELSE "ok"

\* refreshAccessToken, from the request to the result of jwt.verify, of
\* User.findById and of the comparison with the stored token.
RefreshFind ==
    \E t \in RefreshInputs :
        /\ Arrives
        /\ LET v == RefreshCheck(t)
               req == [Idle EXCEPT !.op = "refresh", !.token = t]
           IN Enter(IF v # "ok" THEN RefreshCatch(req, v)
                    ELSE [req EXCEPT !.pc = "gen", !.uid = t.sub])
        /\ UNCHANGED <<users, clock, issued, loggedOut>>

(* ------------------------------- Logout ------------------------------- *)
\* verifyUser, the guard of the /logout route: the access token is verified
\* and its subject loaded as req.user.
verifyUser(t, now) ==
    IF t = Undefined THEN "Unauthorized request"
    ELSE IF jwtVerify(t, "access", AccessLife, now) # "ok" THEN "Invalid access token"
    ELSE IF t.sub \notin UserIds THEN "Invalid access token"
    ELSE "ok"

\* A slip: a logout that clears the token and refuses a user who has none.
logOutUserOnce(doc) ==
    IF doc.refreshToken = Undefined THEN [doc |-> doc, status |-> 401]
    ELSE [doc |-> [doc EXCEPT !.refreshToken = Undefined], status |-> 200]

\* logOutUser on the document of req.user: the document as the update
\* leaves it and the status of the response. The update document
\* { set: { refreshToken: undefined } } names no update operator and no path
\* of the schema: the document is left as it was.
logOutUser(doc) == [doc |-> doc, status |-> 200]

\* What a request to /logout can carry: nothing, or an access token a client
\* holds (the one signed with a user's current refresh token, or with the
\* one current at the user's last Logout), whole or with a byte flipped.
LogoutInputs ==
    LET known == ({users[u].refreshToken : u \in UserIds}
                    \cup {loggedOut[u] : u \in UserIds}) \ {Undefined}
        held == {AccessOf(t) : t \in known}
    IN {Undefined} \cup held \cup {Tamper(t) : t \in held}

\* The /logout route up to logOutUser's await.
LogoutAuth ==
    \E t \in LogoutInputs :
        /\ Arrives
        /\ LET req == [Idle EXCEPT !.op = "logout", !.token = t]
               v == verifyUser(t, clock)
           IN Enter(IF v # "ok" THEN Fail(req, 401, v)
                    ELSE [req EXCEPT !.pc = "update", !.uid = t.sub])
        /\ UNCHANGED <<users, clock, issued, loggedOut>>

\* User.findByIdAndUpdate(req.user._id, ...), then the 200 response.
LogoutUpdate ==
    \E req \in Reqs :
        /\ At(req, "logout", "update")
        /\ LET u == req.uid
               out == logOutUser(users[u])
           IN /\ users' = [users EXCEPT ![u] = out.doc]
              /\ loggedOut' = [loggedOut EXCEPT ![u] = users[u].refreshToken]
              /\ Step(req, [req EXCEPT !.pc = "done", !.status = out.status,
                                       !.message = "User logout successfuly",
                                       !.again = loggedOut[u] # Undefined,
                                       !.cookieAccess = options,
                                       !.cookieRefresh = options])
        /\ UNCHANGED <<clock, issued>>

(* ------------------------------ Register ------------------------------ *)
FullNames == {Missing, " ", "Al"}
RegEmails == {Missing, " ", "alice@x", "bob@x"}
RegUsernames == {Missing, " ", "alice", "bob"}
RegPasswords == {Missing, " ", "pw1"}

\* What a request to /register can carry: the four fields of the body, each
\* absent, blank or filled in, with or without an avatar file.
Forms ==
    [fullName : FullNames, email : RegEmails, username : RegUsernames,
     password : RegPasswords, avatar : BOOLEAN]

\* (field) => field?.trim() == "": of an absent field, undefined == "".
IsBlank(field) == field # Missing /\ trim(field) = ""

\* [fullName, email, username, password].some(...)
SomeBlank(form) ==
    \/ IsBlank(form.fullName) \/ IsBlank(form.email)
    \/ IsBlank(form.username) \/ IsBlank(form.password)

\* User.findOne({ $or: [{ username }, { email }] }) finds a document.
existingUser(form) ==
    \E i \in UserIds : \/ users[i].username = form.username
                       \/ users[i].email = form.email

\* registerUser, from the request to its call of User.create: the
\* validation, User.findOne, the check for an avatar file, the two uploads
\* (the avatar's succeeds or not) and the argument of User.create, where
\* username.toLowerCase() throws on an absent username. A request that is
\* refused keeps no local.
RegisterRequest(form, uploaded) ==
    LET req == [Idle EXCEPT !.op = "register"]
    IN IF SomeBlank(form) THEN Fail(req, 400, "All fields are required")
       ELSE IF existingUser(form)
       THEN Fail(req, 409, "User with email or username already registered")
       ELSE IF ~form.avatar THEN Fail(req, 400, "Avatar file is required")
       ELSE IF ~uploaded THEN Fail(req, 400, "Avatar file upload failed")
       ELSE IF form.username = Missing
       THEN Fail(req, 500, "Cannot read properties of undefined")
       ELSE [req EXCEPT !.pc = "create", !.form = form]

\* A request to /register arrives.
RegisterFind ==
    \E form \in Forms, uploaded \in BOOLEAN :
        /\ Arrives
        /\ Enter(RegisterRequest(form, uploaded))
        /\ UNCHANGED <<users, clock, issued, loggedOut>>

\* The document User.create builds: the username in lower case, the
\* password hashed.
NewDocument(form) ==
    NewUser(toLowerCase(form.username), form.email, form.password)

\* What the store answers to User.create: the schema's required fields,
\* then the unique indexes on username and email.
CreateError(form) ==
    IF Missing \in {form.fullName, form.email, form.password}
    THEN "User validation failed"
    ELSE IF \E i \in UserIds : \/ users[i].username = NewDocument(form).username
                               \/ users[i].email = NewDocument(form).email
    THEN "E11000 duplicate key error"
    ELSE "ok"

\* await User.create({...}): the document is inserted, or the store's error
\* leaves registerUser as thrown.
RegisterCreate ==
    \E req \in Reqs :
        /\ At(req, "register", "create")
        /\ IF CreateError(req.form) # "ok"
           THEN /\ Step(req, Fail(req, 500, CreateError(req.form)))
                /\ UNCHANGED <<users, issued, loggedOut>>
           ELSE \* the locals are not read after this await but for user._id
                /\ users' = Append(users, NewDocument(req.form))
                /\ issued' = Append(issued, Undefined)
                /\ loggedOut' = Append(loggedOut, Undefined)
                /\ Step(req, [req EXCEPT !.pc = "view", !.uid = Len(users) + 1,
                                         !.form = NoForm])
        /\ UNCHANGED clock

\* User.findById(user._id).select("-password -refreshToken"), then the 201
\* response.
RegisterRespond ==
    \E req \in Reqs :
        /\ At(req, "register", "view")
        /\ Step(req, [req EXCEPT
                        !.pc = "done", !.status = 201,
                        !.message = "User registered successfully",
                        !.bodyUser = Select(users[req.uid],
                                            {"password", "refreshToken"})])
        /\ UNCHANGED <<users, clock, issued, loggedOut>>

\* res.status(..).json(..): the response leaves and the request is over.
Sent ==
    \E req \in Reqs :
        /\ req.pc = "done"
        /\ reqs' = reqs (-) SetToBag({req})
        /\ UNCHANGED <<users, clock, issued, loggedOut>>

(* --------------------------- specification ---------------------------- *)
Next ==
    \/ Tick
    \/ LoginFind
    \/ GenFind
    \/ GenSave
    \/ LoginRespond
    \/ RefreshFind
    \/ LogoutAuth
    \/ LogoutUpdate
    \/ Sent

Spec == Init /\ [][Next]_vars

\* The same server started on a collection of two users.
InitTwo ==
    /\ users \in TwoUserStores
    /\ clock = 0
    /\ reqs = EmptyBag
    /\ issued = [u \in UserIds |-> Undefined]
    /\ loggedOut = [u \in UserIds |-> Undefined]

\* ... serving /login alone.
NextLogin ==
    \/ Tick
    \/ LoginFind
    \/ GenFind
    \/ GenSave
    \/ LoginRespond
    \/ Sent

SpecLogin == InitTwo /\ [][NextLogin]_vars

\* The server started on an empty collection, serving /register.
InitRegister ==
    /\ users = <<>>
    /\ clock = 0
    /\ reqs = EmptyBag
    /\ issued = <<>>
    /\ loggedOut = <<>>

NextRegister ==
    \/ RegisterFind
    \/ RegisterCreate
    \/ RegisterRespond
    \/ Sent

SpecRegister == InitRegister /\ [][NextRegister]_vars

\* The server started on an empty collection, serving every route, one
\* request at a time.
NextOneAtATime ==
    /\ \/ Tick
       \/ RegisterFind
       \/ RegisterCreate
       \/ RegisterRespond
       \/ LoginFind
       \/ GenFind
       \/ GenSave
       \/ LoginRespond
       \/ RefreshFind
       \/ LogoutAuth
       \/ LogoutUpdate
       \/ Sent
    /\ BagCardinality(reqs') <= 1

SpecOneAtATime == InitRegister /\ [][NextOneAtATime]_vars

(* ------------------------------- claims ------------------------------- *)
\* The requests that have just responded, by handler.
Done(op) == {d \in Reqs : d.op = op /\ d.pc = "done"}

TokenReused == "Refresh token is expired or used"

\* The first step of a request: it is in flight after the step and was not
\* before it.
Arrived(d) ==
    /\ BagCardinality(reqs') = BagCardinality(reqs) + 1
    /\ CopiesIn(d, reqs') > CopiesIn(d, reqs)

\* C1: when Login succeeds, the refresh token in the response body and the
\* one in the refreshToken cookie are the token the Login saved on the
\* user's document: the stored token equals the returned one, unless
\* another request has saved a token on that user since.
C1_LoginStoresReturnedToken ==
    \A d \in Done("login") :
        d.status = 200 =>
            /\ d.bodyRefresh # Undefined
            /\ d.bodyRefresh = d.cookieRefresh
            /\ d.bodyRefresh = d.refreshToken
            /\ (~d.overwritten => users[d.uid].refreshToken = d.bodyRefresh)

C1_Witness ==
    \E d \in Done("login") :
        /\ d.status = 200 /\ ~d.overwritten
        /\ users[d.uid].refreshToken = d.bodyRefresh

\* C2 (as claimed): a Refresh presenting the stored token T that succeeds
\* leaves a stored token different from T, and T presented again is
\* refused.
C2_RotationIsSingleUse ==
    \A d \in Done("refresh") :
        d.status = 200 =>
            /\ users[d.uid].refreshToken # d.token
            /\ RefreshCheck(d.token) \in {TokenReused, "jwt expired"}

\* C3 (as claimed): a successful Refresh returns a new access token and a
\* new refresh token, the latter being the token it has just saved.
C3_RefreshReturnsSavedToken ==
    \A d \in Done("refresh") :
        d.status = 200 =>
            /\ d.bodyAccess # Undefined
            /\ d.bodyRefresh # Undefined
            /\ d.bodyRefresh = users[d.uid].refreshToken
            /\ d.cookieRefresh = d.bodyRefresh

\* C4 (as claimed): of the Refresh requests that pass the comparison with
\* the same stored token before any of them has saved, at most one
\* succeeds: once one has saved, the others end with TokenReused, having
\* signed and saved nothing.
C4_OneConcurrentRefreshWins ==
    \A q \in Reqs :
        (q.op = "refresh" /\ q.rivalWon) =>
            /\ q.pc # "save"
            /\ q.pc = "done" =>
                  /\ q.status = 401 /\ q.message = TokenReused
                  /\ q.refreshToken = Undefined

\* C5 (as claimed): when Logout has completed for a user, the user's stored
\* refresh token is empty.
C5_LogoutClearsToken ==
    \A d \in Done("logout") :
        d.status = 200 => users[d.uid].refreshToken = Undefined

\* C6 (as claimed): once a user's Logout has completed, and until the
\* user's next Login, a Refresh presenting the refresh token that was
\* stored at the Logout is refused.
C6_RefreshAfterLogoutFails ==
    \A u \in UserIds :
        loggedOut[u] # Undefined => RefreshCheck(loggedOut[u]) # "ok"

\* The refresh tokens that a Refresh arriving now would rotate.
Accepted(u) == {t \in RefreshTokens : t.sub = u /\ RefreshCheck(t) = "ok"}

C8_MismatchRejected ==
    [][\A d \in BagToSet(reqs') :
          (/\ Arrived(d)
           /\ d.op = "refresh"
           /\ jwtVerify(d.token, "refresh", RefreshLife, clock) = "ok"
           /\ d.token.sub \in UserIds
           /\ d.token # users[d.token.sub].refreshToken)
          => /\ d.pc = "done" /\ d.status = 401 /\ d.message = TokenReused
             /\ d.accessToken = Undefined /\ d.refreshToken = Undefined
             /\ d.bodyAccess = Undefined /\ d.bodyRefresh = Undefined
             /\ d.cookieAccess = Undefined /\ d.cookieRefresh = Undefined
             /\ users' = users]_vars

C8_Witness ==
    \E d \in Done("refresh") :
        /\ d.message = TokenReused
        /\ jwtVerify(d.token, "refresh", RefreshLife, clock) = "ok"
        /\ users[d.token.sub].refreshToken # Undefined

\* C9: a Login whose identity names one user and whose password is that
\* user's is never refused: it ends 200 (500 only when the store fails the
\* save), and the access and refresh tokens it signs and returns carry that
\* user's id, never another user's.
C9_LoginSubjectIsUser ==
    \A q \in Reqs :
        (q.op = "login" /\ q.claimed # 0) =>
            /\ q.pc = "done" => q.status \in {200, 500}
            /\ q.pc \in {"save", "respond"} =>
                  q.accessToken.sub = q.claimed /\ q.refreshToken.sub = q.claimed
            /\ (q.pc = "done" /\ q.status = 200) =>
                  /\ q.bodyAccess.kind = "access" /\ q.bodyAccess.sub = q.claimed
                  /\ q.bodyRefresh.kind = "refresh" /\ q.bodyRefresh.sub = q.claimed
                  /\ q.cookieAccess = q.bodyAccess
                  /\ q.cookieRefresh = q.bodyRefresh

\* The second user logs in.
C9_Witness ==
    \E d \in Done("login") :
        d.status = 200 /\ d.claimed = 2 /\ d.bodyRefresh.sub = 2

Named(un, em) ==
    {i \in UserIds : \/ (un # "" /\ users[i].username = un)
                     \/ (em # "" /\ users[i].email = em)}

\* Credentials whose identity names no user.
UnknownIdentity(un, em) == (un # "" \/ em # "") /\ Named(un, em) = {}

\* Credentials whose identity names one user and whose password is not that
\* user's.
WrongPassword(un, em, pw) ==
    /\ Cardinality(Named(un, em)) = 1
    /\ \A i \in Named(un, em) : users[i].password # Hash(pw)

\* C11 (as claimed): a Login refused for an unknown identity and a Login
\* refused for a wrong password get the same status and the same message:
\* the response to either is the response to every such Login.
C11_SameErrorUnknownAndWrong ==
    \A d \in Done("login") :
        \A un1 \in Usernames, em1 \in Emails, pw1 \in Passwords :
            (d = LoginRequest(un1, em1, pw1)
             /\ (UnknownIdentity(un1, em1) \/ WrongPassword(un1, em1, pw1))) =>
                \A un2 \in Usernames, em2 \in Emails, pw2 \in Passwords :
                    (UnknownIdentity(un2, em2) \/ WrongPassword(un2, em2, pw2)) =>
                        /\ LoginRequest(un2, em2, pw2).status = d.status
                        /\ LoginRequest(un2, em2, pw2).message = d.message

\* C12: a Login whose identity names no user, or whose password is not the
\* named user's, ends 401 or 404 at once: it signs and returns no token, sets
\* no cookie, and leaves the users collection as it was.
C12_FailedLoginChangesNothing ==
    [][\A d \in BagToSet(reqs') :
          \A un \in Usernames, em \in Emails, pw \in Passwords :
              (/\ Arrived(d)
               /\ d = LoginRequest(un, em, pw)
               /\ (UnknownIdentity(un, em) \/ WrongPassword(un, em, pw)))
              => /\ d.pc = "done" /\ d.status \in {401, 404}
                 /\ d.accessToken = Undefined /\ d.refreshToken = Undefined
                 /\ d.bodyAccess = Undefined /\ d.bodyRefresh = Undefined
                 /\ d.cookieAccess = Undefined /\ d.cookieRefresh = Undefined
                 /\ users' = users]_vars

\* A wrong password is refused while a user is logged in.
C12_Witness ==
    \E d \in Done("login") :
        /\ d.status = 401 /\ d.bodyRefresh = Undefined
        /\ \E u \in UserIds : users[u].refreshToken # Undefined

\* A request to /refresh-token that has just arrived and been refused with
\* `message`, before any user was loaded: it has signed and returned nothing.
RefusedAtOnce(d, message) ==
    /\ d.pc = "done" /\ d.status = 401 /\ d.message = message
    /\ d.uid = 0
    /\ d.accessToken = Undefined /\ d.refreshToken = Undefined
    /\ d.bodyAccess = Undefined /\ d.bodyRefresh = Undefined
    /\ d.cookieAccess = Undefined /\ d.cookieRefresh = Undefined

\* C13: a Refresh that carries no refresh token ends 401 'Unauthorized
\* request' at once, before jwt.verify and before any user is loaded, and
\* leaves the users collection as it was.
C13_AbsentTokenUnauthorized ==
    [][\A d \in BagToSet(reqs') :
          (Arrived(d) /\ d.op = "refresh" /\ d.token = Undefined)
          => RefusedAtOnce(d, "Unauthorized request") /\ users' = users]_vars

C13_Witness ==
    \E d \in Done("refresh") :
        /\ d.token = Undefined /\ d.message = "Unauthorized request"
        /\ \E u \in UserIds : users[u].refreshToken # Undefined

\* C14: a Refresh presenting a refresh token with a good signature that is
\* past its expiry ends 401 'jwt expired', also when the token is the
\* user's stored token; it signs and returns no token and leaves the users
\* collection as it was.
C14_ExpiredTokenRejected ==
    [][\A d \in BagToSet(reqs') :
          (/\ Arrived(d)
           /\ d.op = "refresh"
           /\ d.token.kind = "refresh" /\ d.token.sig = "good"
           /\ clock >= d.token.iat + RefreshLife)
          => RefusedAtOnce(d, "jwt expired") /\ users' = users]_vars

\* The stored token is presented after its expiry.
C14_Witness ==
    \E d \in Done("refresh") :
        /\ d.message = "jwt expired"
        /\ d.token.sub \in UserIds
        /\ d.token = users[d.token.sub].refreshToken

\* C15: a Refresh presenting a token whose signature does not verify under
\* the refresh secret (a byte flipped, or a token signed as an access token)
\* ends 401 with jwt.verify's error, before any user is loaded, and leaves
\* the users collection as it was.
C15_TamperedTokenRejected ==
    [][\A d \in BagToSet(reqs') :
          (/\ Arrived(d)
           /\ d.op = "refresh"
           /\ d.token # Undefined
           /\ (d.token.sig # "good" \/ d.token.kind # "refresh"))
          => RefusedAtOnce(d, "invalid signature") /\ users' = users]_vars

\* The stored token is presented with a byte flipped.
C15_Witness ==
    \E d \in Done("refresh"), u \in UserIds :
        /\ users[u].refreshToken # Undefined
        /\ d.token = Tamper(users[u].refreshToken)
        /\ d.message = "invalid signature"

\* C19: a Refresh that carried a token and did not succeed ends 401, never
\* 500, whatever failed: jwt.verify, the lookup, the comparison, or the
\* save inside generateAccessAndRefereshTokens, whose ApiError(500) the
\* catch of refreshAccessToken turns into a 401 with the same message.
C19_FailingRefreshIs401 ==
    \A d \in Done("refresh") :
        (d.token # Undefined /\ d.status # 200) =>
            /\ d.status = 401
            /\ d.message \in {"invalid signature", "jwt expired",
                              "Invalid refresh token", TokenReused,
                              "Error generating refresh and access tokens"}

\* The store fails the save of a Refresh.
C19_Witness ==
    \E d \in Done("refresh") :
        /\ d.status = 401
        /\ d.message = "Error generating refresh and access tokens"
        /\ d.refreshToken # Undefined

\* A form with each of the four fields filled in.
Complete(form) ==
    \A field \in {form.fullName, form.email, form.username, form.password} :
        field # Missing /\ trim(field) # ""

\* A form whose username (as it would be stored) or email is a stored user's.
Collides(form) ==
    \E i \in UserIds : \/ users[i].username = toLowerCase(form.username)
                       \/ users[i].email = form.email

\* No two stored users share a username, no two share an email.
Unique ==
    \A i, j \in UserIds :
        i # j => /\ users[i].username # users[j].username
                 /\ users[i].email # users[j].email

\* C17 (as claimed): whatever the interleaving of registrations, no two
\* stored users share a username or an email, and a registration whose
\* username or email is a stored user's, when it looks the user up or when
\* it comes to create its own, ends 409 and creates no user.
C17_UniqueUsersConflict ==
    [][/\ Unique'
       /\ \A d \in BagToSet(reqs') :
             \A form \in Forms, uploaded \in BOOLEAN :
                 (/\ Arrived(d)
                  /\ d = RegisterRequest(form, uploaded)
                  /\ Complete(form) /\ Collides(form))
                 => d.pc = "done" /\ d.status = 409 /\ users' = users
       /\ \A q \in Reqs, d \in BagToSet(reqs') :
             (/\ q.op = "register" /\ q.pc = "create"
              /\ d # q
              /\ reqs' = (reqs (-) SetToBag({q})) (+) SetToBag({d})
              /\ Complete(q.form) /\ Collides(q.form))
             => d.pc = "done" /\ d.status = 409 /\ users' = users]_vars

\* C20 (as claimed): a registration with any of fullName, email, username
\* or password absent, or blank once trimmed, ends 400 'All fields are
\* required' at once and creates no user.
C20_IncompleteFormRejected ==
    [][\A d \in BagToSet(reqs') :
          \A form \in Forms, uploaded \in BOOLEAN :
              (/\ Arrived(d)
               /\ d = RegisterRequest(form, uploaded)
               /\ ~Complete(form))
              => /\ d.pc = "done" /\ d.status = 400
                 /\ d.message = "All fields are required"
                 /\ users' = users]_vars

\* C16: the user in the body of a successful Login, and of a successful
\* registration, is the user's document without its password field and
\* without its refreshToken field.
C16_ViewHidesSecrets ==
    \A d \in Done("login") \cup Done("register") :
        d.status \in {200, 201} =>
            /\ "password" \notin DOMAIN d.bodyUser
            /\ "refreshToken" \notin DOMAIN d.bodyUser
            /\ "username" \in DOMAIN d.bodyUser
            /\ d.bodyUser.username = users[d.uid].username

\* A user who registered logs in.
C16_Witness ==
    \E d \in Done("login") :
        /\ d.status = 200
        /\ users[d.uid].refreshToken # Undefined
        /\ d.bodyUser = Select(users[d.uid], {"password", "refreshToken"})

\* C18: a step changes a user's stored refresh token only when it is the
\* save of a Login as that user or of a Refresh that presented a token of
\* that user and passed the comparison, the request going on to succeed (the
\* token stored is then the one it signed), or the update of a Logout of
\* that user; every other step, of a registration, of a request that fails,
\* of a request of another user, leaves it as it was.
C18_TokenChangesOnlyByOwner ==
    [][\A u \in UserIds :
          users'[u].refreshToken # users[u].refreshToken =>
              \E q \in Reqs :
                  /\ q.uid = u
                  /\ \/ /\ q.op \in {"login", "refresh"} /\ q.pc = "save"
                        /\ q.op = "refresh" => q.token.sub = u
                        /\ users'[u].refreshToken = q.refreshToken
                        /\ \E d \in BagToSet(reqs') :
                              /\ d.op = q.op /\ d.uid = u
                              /\ d.refreshToken = q.refreshToken
                              /\ \/ d.pc = "respond"
                                 \/ d.pc = "done" /\ d.status = 200
                     \/ q.op = "logout" /\ q.pc = "update"]_vars

\* A Refresh of the first user succeeds while the second user is logged in.
C18_Witness ==
    \E d \in Done("refresh") :
        /\ d.status = 200 /\ d.uid = 1
        /\ Len(users) = 2
        /\ users[1].refreshToken # Undefined
        /\ users[2].refreshToken # Undefined
        /\ users[2].refreshToken # users[1].refreshToken

====
